---- MODULE Spec2Model ----
(***************************************************************************)
(* The stage-transition workflow of the kanban pipeline: the hook          *)
(* useOpportunityDrag with its two entry points handleOpportunityDrag and  *)
(* completeOpportunityMove, the remote opportunity store they call, and    *)
(* the dialog that resumes or abandons a paused drag.                      *)
(***************************************************************************)
EXTENDS Integers, Sequences, FiniteSets, TLC

\* ------------------------------------------------------------------ bounds
\* Number of handleOpportunityDrag calls in one behaviour; every call has a
\* record of its own, so it is also the number of overlapping executions.
MaxCalls == 2
Calls == 1..MaxCalls

\* ------------------------------------------------------------- data model
FieldNames == {"budget"}
TaskNames == {"call"}
NoValue == ""
Budget == "5000"
Reason == "price"

Filled == [f \in FieldNames |-> Budget]
Empty == [f \in FieldNames |-> NoValue]

Opp(id, stageId, customFields, done, win, loss) ==
  [id |-> id, stageId |-> stageId, customFields |-> customFields,
   requiredTasksCompleted |-> done, winReason |-> win, lossReason |-> loss,
   generatedTasks |-> {}, lastStageChangeAt |-> 0]

\* o1 has nothing filled in; o2 lacks only the win reason
O1 == Opp("o1", "A", Empty, {}, NoValue, NoValue)
O2 == Opp("o2", "A", Filled, TaskNames, NoValue, Reason)

OppIds == {"o1", "o2"}
\* ids a drag can be called with: the known ones and one that is in no list
DragIds == OppIds \cup {"ghost"}

Stage(id, win, loss, winReq, lossReq, fields, tasks, opps) ==
  [id |-> id, isWinStage |-> win, isLossStage |-> loss,
   winReasonRequired |-> winReq, lossReasonRequired |-> lossReq,
   requiredFields |-> fields, requiredTasks |-> tasks, opportunities |-> opps]

StageA == Stage("A", FALSE, FALSE, FALSE, FALSE,
                {[name |-> "budget", isRequired |-> FALSE]}, {}, <<O1, O2>>)
StageW == Stage("W", TRUE, FALSE, TRUE, FALSE,
                {[name |-> "budget", isRequired |-> TRUE]}, {}, <<>>)
StageL == Stage("L", FALSE, TRUE, FALSE, TRUE,
                {}, {[name |-> "call", isRequired |-> TRUE]}, <<>>)

StageIds == {"A", "W", "L"}
\* stage ids a drop can name: the known ones and one that is in no list
DropIds == StageIds \cup {"X"}

\* --------------------------------------------------------------- helpers
Range(s) == {s[i] : i \in DOMAIN s}

Min(a, b) == IF a < b THEN a ELSE b

\* Array.prototype.filter
RECURSIVE Filter(_, _)
Filter(s, id) ==
  IF s = <<>> THEN <<>>
  ELSE IF Head(s).id = id THEN Filter(Tail(s), id)
       ELSE <<Head(s)>> \o Filter(Tail(s), id)

\* Array.prototype.splice(index, 0, x) for index >= 0: an index beyond the
\* end inserts at the end.
Splice(s, index, x) ==
  LET at == Min(index, Len(s))
  IN SubSeq(s, 1, at) \o <<x>> \o SubSeq(s, at + 1, Len(s))

\* Array.prototype.find over the stage list, as a set with 0 or 1 element
FindStage(list, id) ==
  LET hits == {i \in DOMAIN list : list[i].id = id}
  IN IF hits = {} THEN {}
     ELSE {list[CHOOSE i \in hits : \A j \in hits : i <= j]}

FindOpp(list, id) ==
  LET hits == {i \in DOMAIN list : list[i].id = id}
  IN IF hits = {} THEN {}
     ELSE {list[CHOOSE i \in hits : \A j \in hits : i <= j]}

The(S) == CHOOSE x \in S : TRUE

\* JS object spread {...a, ...b} where a has every key of an opportunity
Get(u, k, default) == IF k \in DOMAIN u THEN u[k] ELSE default

Spread(o, u) ==
  [id |-> o.id,
   stageId |-> Get(u, "stageId", o.stageId),
   customFields |-> Get(u, "customFields", o.customFields),
   requiredTasksCompleted |-> Get(u, "requiredTasksCompleted", o.requiredTasksCompleted),
   winReason |-> Get(u, "winReason", o.winReason),
   lossReason |-> Get(u, "lossReason", o.lossReason),
   generatedTasks |-> Get(u, "generatedTasks", o.generatedTasks),
   lastStageChangeAt |-> Get(u, "lastStageChangeAt", o.lastStageChangeAt)]

\* ------------------------------------------------- Requirement Evaluator
MissingFields(opportunity, stage) ==
  {f.name : f \in {g \in stage.requiredFields :
                     g.isRequired /\ opportunity.customFields[g.name] = NoValue}}

MissingTasks(opportunity, stage) ==
  {t.name : t \in {g \in stage.requiredTasks :
                     g.isRequired /\ g.name \notin opportunity.requiredTasksCompleted}}

RequiresReason(opportunity, stage) ==
  \/ stage.isWinStage /\ stage.winReasonRequired /\ opportunity.winReason = NoValue
  \/ stage.isLossStage /\ stage.lossReasonRequired /\ opportunity.lossReason = NoValue

\* ------------------------------------------------ Drag Operation Builder
createDragOperation(opportunity, sourceStageId, destinationStage, destinationIndex) ==
  [opportunity |-> opportunity,
   sourceStageId |-> sourceStageId,
   destinationStage |-> destinationStage,
   destinationIndex |-> destinationIndex,
   missingFields |-> MissingFields(opportunity, destinationStage),
   missingTasks |-> MissingTasks(opportunity, destinationStage),
   requiresReason |-> RequiresReason(opportunity, destinationStage)]

hasRequirements(op) ==
  op.missingFields # {} \/ op.missingTasks # {} \/ op.requiresReason

requiresOnlyReasons(op) ==
  op.requiresReason /\ op.missingFields = {} /\ op.missingTasks = {}

\* ------------------------------------------------------------------ state
VARIABLES
  stages,                    \* the local stage list (React state)
  remote,                    \* the remote store: opportunity id -> record
  isDragging,                \* the in-flight flag of the hook
  showRequiredFieldsDialog,  \* "false", "true" or "reason"
  currentDragOperation,      \* {} or {the paused drag operation}
  loadingToast,              \* the toast with id 'moving-opportunity' is shown
  ex,                        \* one record per handleOpportunityDrag call
  now,                       \* the clock: what the next new Date() returns
  editStageDialog,           \* EditStageDialog: its props, state and form
  stageTable,                \* the remote stage table: stage id -> row
  userRoleHook,              \* useUserRole: its state, the user, its requests
  createUserDialog           \* CreateUserDialog: its props, state and request

dragVars == <<stages, remote, isDragging, showRequiredFieldsDialog,
              currentDragOperation, loadingToast, ex, now>>

editVars == <<editStageDialog, stageTable>>

roleVars == <<userRoleHook>>

userVars == <<createUserDialog>>

vars == <<dragVars, editVars, roleVars, userVars>>

NoArgs == [opportunity |-> {}, sourceStageId |-> "", destinationStageId |-> "",
           destinationIndex |-> 0, updatedOpportunity |-> {}]

Unused == [pc |-> "unused", args |-> NoArgs, closure |-> <<>>, calls |-> <<>>,
           fetched |-> <<>>, success |-> 0, error |-> 0]

\* a call that returned keeps its outcome and its notification counts only
Finished(e, outcome, succeeded) ==
  [Unused EXCEPT !.pc = outcome, !.success = e.success + succeeded,
                 !.error = e.error]

\* the stage as the remote service knows it
StageConfig(stageId) == The(FindStage(<<StageA, StageW, StageL>>, stageId))

\* ------------------------------------------------------- EditStageDialog
\* the names a stage can have; the first is too short for the form
StageNames == <<"Q", "Deal">>

\* a row of the stage table, as far as the edit form reads and writes it
StageRow(config) ==
  [id |-> config.id, name |-> StageNames[2],
   isWinStage |-> config.isWinStage, isLossStage |-> config.isLossStage]

\* defaultValues of useForm
DefaultValues == [name |-> "", isWinStage |-> FALSE, isLossStage |-> FALSE]

\* the dialog before it is first opened: useState(null), useState(false),
\* useState(true), no request out, no toast shown
Closed ==
  [open |-> FALSE, stageId |-> "", stage |-> {}, isSubmitting |-> FALSE,
   loading |-> TRUE, values |-> DefaultValues, errors |-> {},
   getById |-> {}, update |-> {}, toast |-> ""]

\* ------------------------------------------------------------ useUserRole
UserIds == {"ana", "bia", "caio"}

\* the user_roles table: the role row of a user, if there is one
UserRoles == [u \in UserIds |-> IF u = "ana" THEN {"admin"}
                                ELSE IF u = "bia" THEN {"manager"} ELSE {}]

\* how many role requests can be out at a time
MaxFetches == 2

\* the hook after its first render, before the effect ran: useState('user'),
\* useState(false), useState(false), useState(true); nobody signed in, no
\* request out, nothing logged
Mounted ==
  [user |-> {}, userRole |-> "user", isAdmin |-> FALSE, isManager |-> FALSE,
   loading |-> TRUE, pending |-> <<>>, log |-> ""]

\* ------------------------------------------------------- CreateUserDialog
\* the form as useState and resetForm set it
BlankForm ==
  [email |-> "", role |-> "user", firstName |-> "", lastName |-> "",
   password |-> ""]

\* how many create-user requests a run makes
MaxInvokes == 2

\* the dialog before it is first opened
Unopened ==
  [isOpen |-> FALSE, formData |-> BlankForm, isLoading |-> FALSE,
   errors |-> [k \in {"email", "firstName", "lastName", "password", "role",
                       "general"} |-> ""],
   request |-> {}, invoked |-> 0, onUserCreated |-> 0, toast |-> ""]

Init ==
  /\ stages = <<StageA, StageW, StageL>>
  /\ remote = [o \in OppIds |-> IF o = "o1" THEN O1 ELSE O2]
  /\ isDragging = FALSE
  /\ showRequiredFieldsDialog = "false"
  /\ currentDragOperation = {}
  /\ loadingToast = FALSE
  /\ ex = [p \in Calls |-> Unused]
  /\ now = 1
  /\ editStageDialog = Closed
  /\ stageTable = [id \in StageIds |-> StageRow(StageConfig(id))]
  /\ userRoleHook = Mounted
  /\ createUserDialog = Unopened

\* ----------------------------------------------------------- remote store
OppOrder == <<"o1", "o2">>

\* opportunityAPI.getByStageId(stageId, false): the stage's rows, in id order
RECURSIVE RowsOf(_, _, _)
RowsOf(store, stageId, ids) ==
  IF ids = <<>> THEN <<>>
  ELSE (IF store[Head(ids)].stageId = stageId THEN <<store[Head(ids)]>> ELSE <<>>)
       \o RowsOf(store, stageId, Tail(ids))

getByStageId(store, stageId) == RowsOf(store, stageId, OppOrder)

\* the effect of one persistence call on the store
ApplyCall(store, call) ==
  IF call.api = "update"
  THEN [store EXCEPT ![call.id] = Spread(@, call.payload)]
  ELSE [store EXCEPT ![call.id].stageId = call.stageId]

\* requiredElementsService.processStageRequirements: instantiates the required
\* tasks of the stage; {} (null) when the stage has none
processStageRequirements(opportunity, destinationStageId) ==
  LET tasks == {t.name : t \in StageConfig(destinationStageId).requiredTasks}
  IN IF tasks = {} THEN {}
     ELSE {[opportunity EXCEPT !.generatedTasks = @ \cup tasks]}

\* ------------------------------------------------------------ the handlers
\* a call takes the first record no call has used
NextCall(p) ==
  /\ ex[p].pc = "unused"
  /\ \A q \in Calls : q < p => ex[q].pc # "unused"

\* the board accepts a drop only while no move is in flight
UIAllowsDrag == ~isDragging

\* the positions the board can report for a drop: one per gap of the
\* destination list, the dragged card taken out of it
DropIndexes(sourceDroppableId, destinationDroppableId) ==
  LET destinationStage == FindStage(stages, destinationDroppableId)
      n == IF destinationStage = {} THEN 0
           ELSE Len(The(destinationStage).opportunities)
  IN IF sourceDroppableId = destinationDroppableId /\ n > 0
     THEN 0..(n - 1) ELSE 0..n

PersistCall(opportunity, destinationStageId, updatedOpportunity) ==
  IF updatedOpportunity # {}
  THEN [api |-> "update", id |-> opportunity.id,
        payload |-> The(updatedOpportunity) @@ [stageId |-> destinationStageId]]
  ELSE [api |-> "move", id |-> opportunity.id, stageId |-> destinationStageId]

\* completeOpportunityMove up to its first await: the flag is raised and the
\* persistence request is sent
completeOpportunityMove(p, closure, opportunity, sourceStageId, destinationStageId, destinationIndex, updatedOpportunity) ==
  /\ isDragging' = TRUE
  /\ ex' = [ex EXCEPT ![p] = [@ EXCEPT
       !.pc = "persist",
       !.args = [opportunity |-> {opportunity},
                 sourceStageId |-> sourceStageId,
                 destinationStageId |-> destinationStageId,
                 destinationIndex |-> destinationIndex,
                 updatedOpportunity |-> updatedOpportunity],
       !.closure = closure,
       !.calls = Append(@, PersistCall(opportunity, destinationStageId,
                                       updatedOpportunity))]]

\* variant: the in-flight flag is raised on entry and the early returns of
\* the lookup leave it raised
handleOpportunityDragFlagFirst(p, draggableId, sourceDroppableId, destinationDroppableId, destinationIndex) ==
  /\ UNCHANGED <<editVars, roleVars, userVars>>
  /\ NextCall(p)
  /\ UIAllowsDrag
  /\ UNCHANGED now
  /\ LET sourceStage == FindStage(stages, sourceDroppableId)
         destinationStage == FindStage(stages, destinationDroppableId)
         opportunity == IF sourceStage = {} THEN {}
                        ELSE FindOpp(The(sourceStage).opportunities, draggableId)
     IN IF sourceStage = {} \/ destinationStage = {} \/ opportunity = {}
        THEN /\ ex' = [ex EXCEPT ![p].pc = "lookupError", ![p].error = @ + 1]
             /\ isDragging' = TRUE
             /\ UNCHANGED loadingToast
        ELSE /\ loadingToast' = TRUE
             /\ ex' = [ex EXCEPT ![p] = [@ EXCEPT
                  !.pc = "createDragOperation",
                  !.args = [opportunity |-> opportunity,
                            sourceStageId |-> sourceDroppableId,
                            destinationStageId |-> destinationDroppableId,
                            destinationIndex |-> destinationIndex,
                            updatedOpportunity |-> {}],
                  !.closure = stages]]
             /\ UNCHANGED isDragging
  /\ UNCHANGED <<stages, remote, showRequiredFieldsDialog, currentDragOperation>>

handleOpportunityDrag(p, draggableId, sourceDroppableId, destinationDroppableId, destinationIndex) ==
  /\ UNCHANGED <<editVars, roleVars, userVars>>
  /\ NextCall(p)
  /\ UIAllowsDrag
  /\ UNCHANGED now
  /\ LET sourceStage == FindStage(stages, sourceDroppableId)
         destinationStage == FindStage(stages, destinationDroppableId)
         opportunity == IF sourceStage = {} THEN {}
                        ELSE FindOpp(The(sourceStage).opportunities, draggableId)
     IN IF sourceStage = {} \/ destinationStage = {} \/ opportunity = {}
        THEN /\ ex' = [ex EXCEPT ![p].pc = "lookupError", ![p].error = @ + 1]
             /\ UNCHANGED loadingToast
        ELSE /\ loadingToast' = TRUE
             /\ ex' = [ex EXCEPT ![p] = [@ EXCEPT
                  !.pc = "createDragOperation",
                  !.args = [opportunity |-> opportunity,
                            sourceStageId |-> sourceDroppableId,
                            destinationStageId |-> destinationDroppableId,
                            destinationIndex |-> destinationIndex,
                            updatedOpportunity |-> {}],
                  !.closure = stages]]
  /\ UNCHANGED <<stages, remote, isDragging, showRequiredFieldsDialog,
                 currentDragOperation>>

\* the drag operation a paused call built (from the stage list it captured)
DragOperationOf(e) ==
  createDragOperation(The(e.args.opportunity), e.args.sourceStageId,
                      The(FindStage(e.closure, e.args.destinationStageId)),
                      e.args.destinationIndex)

\* variant: the win/loss reason is tested before the missing fields
DialogForReasonFirst(dragOperation) ==
  IF dragOperation.requiresReason THEN "reason" ELSE "true"

\* variant: the reason-only shortcut is missing
DialogForAlwaysFull(dragOperation) == "true"

\* lines 64-72: which dialog a paused drag opens
DialogFor(dragOperation) ==
  IF requiresOnlyReasons(dragOperation) THEN "reason" ELSE "true"

\* variant: the move is sent to the store before the dialog opens
PauseForInputMoveSent(p, dragOperation) ==
  /\ loadingToast' = FALSE
  /\ currentDragOperation' = {dragOperation}
  /\ showRequiredFieldsDialog' = DialogFor(dragOperation)
  /\ ex' = [q \in Calls |->
       IF q = p
       THEN [ex[q] EXCEPT !.pc = "awaitingUser",
               !.calls = Append(@, PersistCall(dragOperation.opportunity,
                                     dragOperation.destinationStage.id, {}))]
       ELSE IF ex[q].pc = "awaitingUser" THEN Finished(ex[q], "discarded", 0)
            ELSE ex[q]]
  /\ UNCHANGED isDragging

\* lines 60-73: the drag is paused; the operation is stored (replacing one
\* that was still waiting) and a dialog opens
PauseForInput(p, dragOperation) ==
  /\ loadingToast' = FALSE
  /\ currentDragOperation' = {dragOperation}
  /\ showRequiredFieldsDialog' = DialogFor(dragOperation)
  /\ ex' = [q \in Calls |->
       IF q = p THEN [ex[q] EXCEPT !.pc = "awaitingUser"]
       ELSE IF ex[q].pc = "awaitingUser" THEN Finished(ex[q], "discarded", 0)
            ELSE ex[q]]
  /\ UNCHANGED isDragging

\* variant: the operation is stored before the requirements are tested
createDragOperationReturnStored(p) ==
  /\ UNCHANGED <<editVars, roleVars, userVars>>
  /\ ex[p].pc = "createDragOperation"
  /\ LET dragOperation == DragOperationOf(ex[p])
         a == ex[p].args
     IN IF hasRequirements(dragOperation)
        THEN PauseForInput(p, dragOperation)
        ELSE /\ completeOpportunityMove(p, ex[p].closure, The(a.opportunity),
                  a.sourceStageId, a.destinationStageId, a.destinationIndex, {})
             /\ currentDragOperation' = {dragOperation}
             /\ UNCHANGED <<loadingToast, showRequiredFieldsDialog>>
  /\ UNCHANGED <<stages, remote, now>>

\* variant: building the drag operation can fail, for a stage with required
\* tasks, and the call ends there
createDragOperationReturnThrows(p) ==
  /\ UNCHANGED <<editVars, roleVars, userVars>>
  /\ ex[p].pc = "createDragOperation"
  /\ LET dragOperation == DragOperationOf(ex[p])
         a == ex[p].args
     IN IF dragOperation.destinationStage.requiredTasks # {}
        THEN /\ ex' = [ex EXCEPT ![p] = Finished(@, "buildFailed", 0)]
             /\ UNCHANGED <<isDragging, loadingToast, currentDragOperation,
                            showRequiredFieldsDialog>>
        ELSE IF hasRequirements(dragOperation)
        THEN PauseForInput(p, dragOperation)
        ELSE /\ completeOpportunityMove(p, ex[p].closure, The(a.opportunity),
                  a.sourceStageId, a.destinationStageId, a.destinationIndex, {})
             /\ UNCHANGED <<loadingToast, currentDragOperation,
                            showRequiredFieldsDialog>>
  /\ UNCHANGED <<stages, remote, now>>

\* variant: the dialogs are nested under a test of the missing fields and
\* tasks alone, so a drag that needs only a reason is moved directly
createDragOperationReturnReasonUnreached(p) ==
  /\ UNCHANGED <<editVars, roleVars, userVars>>
  /\ ex[p].pc = "createDragOperation"
  /\ LET dragOperation == DragOperationOf(ex[p])
         a == ex[p].args
     IN IF dragOperation.missingFields # {} \/ dragOperation.missingTasks # {}
        THEN PauseForInput(p, dragOperation)
        ELSE /\ completeOpportunityMove(p, ex[p].closure, The(a.opportunity),
                  a.sourceStageId, a.destinationStageId, a.destinationIndex, {})
             /\ UNCHANGED <<loadingToast, currentDragOperation,
                            showRequiredFieldsDialog>>
  /\ UNCHANGED <<stages, remote, now>>

\* handleOpportunityDrag after `await createDragOperation(...)`
createDragOperationReturn(p) ==
  /\ UNCHANGED <<editVars, roleVars, userVars>>
  /\ ex[p].pc = "createDragOperation"
  /\ LET dragOperation == DragOperationOf(ex[p])
         a == ex[p].args
     IN IF hasRequirements(dragOperation)
        THEN PauseForInput(p, dragOperation)
        ELSE /\ completeOpportunityMove(p, ex[p].closure, The(a.opportunity),
                  a.sourceStageId, a.destinationStageId, a.destinationIndex, {})
             /\ UNCHANGED <<loadingToast, currentDragOperation,
                            showRequiredFieldsDialog>>
  /\ UNCHANGED <<stages, remote, now>>

\* what the dialog can hand back: nothing, single fields, or the whole
\* edited opportunity
Updates(op) ==
  { {},
    {[customFields |-> Filled]},
    {[winReason |-> Reason]},
    {[Spread(op.opportunity, [customFields |-> Filled]) EXCEPT
        !.winReason = Reason, !.lossReason = Reason, !.requiredTasksCompleted = TaskNames]} }

\* the dialog's confirm button: resumes the paused operation
dialogConfirm(p, updatedOpportunity) ==
  /\ UNCHANGED <<editVars, roleVars, userVars>>
  /\ ex[p].pc = "awaitingUser"
  /\ currentDragOperation # {}
  /\ LET op == The(currentDragOperation)
     IN /\ updatedOpportunity \in Updates(op)
        /\ completeOpportunityMove(p, stages, op.opportunity, op.sourceStageId,
             op.destinationStage.id, op.destinationIndex, updatedOpportunity)
  /\ showRequiredFieldsDialog' = "false"
  /\ currentDragOperation' = {}
  /\ UNCHANGED now
  /\ UNCHANGED <<stages, remote, loadingToast>>

\* the dialog's dismissal: the paused operation is discarded
dialogCancel(p) ==
  /\ UNCHANGED <<editVars, roleVars, userVars>>
  /\ ex[p].pc = "awaitingUser"
  /\ ex' = [ex EXCEPT ![p] = Finished(@, "cancelled", 0)]
  /\ showRequiredFieldsDialog' = "false"
  /\ currentDragOperation' = {}
  /\ UNCHANGED <<stages, remote, isDragging, loadingToast, now>>

\* line 92
OpportunityToMove(opportunity, updatedOpportunity) ==
  IF updatedOpportunity # {} THEN Spread(opportunity, The(updatedOpportunity))
  ELSE opportunity

\* lines 118-140
updatedStages(closure, opportunity, sourceStageId, destinationStageId, destinationIndex, finalOpportunity, date) ==
  [i \in DOMAIN closure |->
     IF closure[i].id = sourceStageId
     THEN [closure[i] EXCEPT !.opportunities = Filter(@, opportunity.id)]
     ELSE IF closure[i].id = destinationStageId
          THEN [closure[i] EXCEPT !.opportunities =
                  Splice(@, destinationIndex,
                         [finalOpportunity EXCEPT !.stageId = destinationStageId,
                                                  !.lastStageChangeAt = date])]
          ELSE closure[i]]

\* variant: only the two stages of the move are fetched again
CatchTwoStages(p) ==
  /\ loadingToast' = FALSE
  /\ ex' = [ex EXCEPT ![p] = [@ EXCEPT
       !.pc = "refetch",
       !.error = @ + 1,
       !.calls = @ \o [i \in 1..2 |->
                         [api |-> "getByStageId",
                          stageId |-> IF i = 1 THEN ex[p].args.sourceStageId
                                      ELSE ex[p].args.destinationStageId,
                          includeArchived |-> FALSE]],
       !.fetched = [i \in DOMAIN ex[p].closure |->
                      IF ex[p].closure[i].id \in {ex[p].args.sourceStageId,
                                                  ex[p].args.destinationStageId}
                      THEN {} ELSE {ex[p].closure[i].opportunities}]]]

\* variant: the catch block dismisses the loading toast but emits no
\* failure notification
CatchNoToast(p) ==
  /\ loadingToast' = FALSE
  /\ ex' = [ex EXCEPT ![p] = [@ EXCEPT
       !.pc = "refetch",
       !.calls = @ \o [i \in DOMAIN ex[p].closure |->
                         [api |-> "getByStageId", stageId |-> ex[p].closure[i].id,
                          includeArchived |-> FALSE]],
       !.fetched = [i \in DOMAIN ex[p].closure |-> {}]]]

\* the catch block up to its await: both toasts, then one refetch per stage
Catch(p) ==
  /\ loadingToast' = FALSE
  /\ ex' = [ex EXCEPT ![p] = [@ EXCEPT
       !.pc = "refetch",
       !.error = @ + 1,
       !.calls = @ \o [i \in DOMAIN ex[p].closure |->
                         [api |-> "getByStageId", stageId |-> ex[p].closure[i].id,
                          includeArchived |-> FALSE]],
       !.fetched = [i \in DOMAIN ex[p].closure |-> {}]]]

\* opportunityAPI.update / opportunityAPI.move resolves
persistOk(p) ==
  /\ UNCHANGED <<editVars, roleVars, userVars>>
  /\ ex[p].pc = "persist"
  /\ LET a == ex[p].args
         opportunity == The(a.opportunity)
         opportunityToMove == OpportunityToMove(opportunity, a.updatedOpportunity)
     IN /\ remote' = ApplyCall(remote, ex[p].calls[Len(ex[p].calls)])
        /\ ex' = [ex EXCEPT ![p] = [@ EXCEPT
             !.pc = "process",
             !.calls = Append(@, [api |-> "processStageRequirements",
                                  opportunity |-> [opportunityToMove EXCEPT
                                     !.stageId = a.destinationStageId],
                                  stageId |-> a.destinationStageId])]]
  /\ UNCHANGED <<stages, isDragging, showRequiredFieldsDialog,
                 currentDragOperation, loadingToast, now>>

\* variant: the patch is applied optimistically, so a rejected persistence
\* call leaves it on the board
persistFailPatched(p) ==
  /\ UNCHANGED <<editVars, roleVars, userVars>>
  /\ ex[p].pc = "persist"
  /\ Catch(p)
  /\ stages' = updatedStages(ex[p].closure, The(ex[p].args.opportunity),
                 ex[p].args.sourceStageId, ex[p].args.destinationStageId,
                 ex[p].args.destinationIndex,
                 OpportunityToMove(The(ex[p].args.opportunity),
                                   ex[p].args.updatedOpportunity), now)
  /\ UNCHANGED <<remote, isDragging, showRequiredFieldsDialog,
                 currentDragOperation, now>>

\* variant: the stage processing is requested although the persistence call
\* was rejected, and the catch block runs after it
persistFailProcessed(p) ==
  /\ UNCHANGED <<editVars, roleVars, userVars>>
  /\ ex[p].pc = "persist"
  /\ loadingToast' = FALSE
  /\ ex' = [ex EXCEPT ![p] = [@ EXCEPT
       !.pc = "refetch",
       !.error = @ + 1,
       !.calls = Append(@, [api |-> "processStageRequirements",
                            opportunity |-> [OpportunityToMove(
                                The(ex[p].args.opportunity),
                                ex[p].args.updatedOpportunity) EXCEPT
                              !.stageId = ex[p].args.destinationStageId],
                            stageId |-> ex[p].args.destinationStageId])
                 \o [i \in DOMAIN ex[p].closure |->
                       [api |-> "getByStageId", stageId |-> ex[p].closure[i].id,
                        includeArchived |-> FALSE]],
       !.fetched = [i \in DOMAIN ex[p].closure |-> {}]]]
  /\ UNCHANGED <<stages, remote, isDragging, showRequiredFieldsDialog,
                 currentDragOperation, now>>

\* opportunityAPI.update / opportunityAPI.move rejects
persistFail(p) ==
  /\ UNCHANGED <<editVars, roleVars, userVars>>
  /\ ex[p].pc = "persist"
  /\ Catch(p)
  /\ UNCHANGED <<stages, remote, isDragging, showRequiredFieldsDialog,
                 currentDragOperation, now>>

\* variant: the result of the stage processing is dropped and the merged
\* opportunity is placed on the board
processOkResultDropped(p) ==
  /\ UNCHANGED <<editVars, roleVars, userVars>>
  /\ ex[p].pc = "process"
  /\ LET a == ex[p].args
         opportunity == The(a.opportunity)
         input == ex[p].calls[Len(ex[p].calls)].opportunity
         processedOpportunity == processStageRequirements(input, a.destinationStageId)
     IN /\ remote' = IF processedOpportunity # {}
                     THEN [remote EXCEPT ![opportunity.id].generatedTasks =
                             The(processedOpportunity).generatedTasks]
                     ELSE remote
        /\ stages' = updatedStages(ex[p].closure, opportunity, a.sourceStageId,
                       a.destinationStageId, a.destinationIndex, input, now)
        /\ ex' = [ex EXCEPT ![p] = Finished(@, "reconciled", 1)]
  /\ loadingToast' = FALSE
  /\ isDragging' = FALSE
  /\ now' = now + 1
  /\ UNCHANGED <<showRequiredFieldsDialog, currentDragOperation>>

\* processStageRequirements resolves: lines 115-147 and the finally block
processOk(p) ==
  /\ UNCHANGED <<editVars, roleVars, userVars>>
  /\ ex[p].pc = "process"
  /\ LET a == ex[p].args
         opportunity == The(a.opportunity)
         input == ex[p].calls[Len(ex[p].calls)].opportunity
         processedOpportunity == processStageRequirements(input, a.destinationStageId)
         finalOpportunity == IF processedOpportunity # {}
                             THEN The(processedOpportunity) ELSE input
     IN /\ remote' = IF processedOpportunity # {}
                     THEN [remote EXCEPT ![opportunity.id].generatedTasks =
                             finalOpportunity.generatedTasks]
                     ELSE remote
        /\ stages' = updatedStages(ex[p].closure, opportunity, a.sourceStageId,
                       a.destinationStageId, a.destinationIndex,
                       finalOpportunity, now)
        /\ ex' = [ex EXCEPT ![p] = Finished(@, "reconciled", 1)]
  /\ loadingToast' = FALSE
  /\ isDragging' = FALSE
  /\ now' = now + 1
  /\ UNCHANGED <<showRequiredFieldsDialog, currentDragOperation>>

\* processStageRequirements rejects
processFail(p) ==
  /\ UNCHANGED <<editVars, roleVars, userVars>>
  /\ ex[p].pc = "process"
  /\ Catch(p)
  /\ UNCHANGED <<stages, remote, isDragging, showRequiredFieldsDialog,
                 currentDragOperation, now>>

\* variant: every response of the rollback is put on the board as it
\* arrives, one setStages per stage
getByStageIdOkEach(p, i) ==
  /\ UNCHANGED <<editVars, roleVars, userVars>>
  /\ ex[p].pc = "refetch"
  /\ i \in DOMAIN ex[p].fetched
  /\ ex[p].fetched[i] = {}
  /\ \A j \in DOMAIN ex[p].fetched : j < i => ex[p].fetched[j] # {}
  /\ LET fetched == [ex[p].fetched EXCEPT
                       ![i] = {getByStageId(remote, ex[p].closure[i].id)}]
         all == \A j \in DOMAIN fetched : fetched[j] # {}
     IN /\ stages' = [stages EXCEPT ![i].opportunities = The(fetched[i])]
        /\ IF all
           THEN /\ isDragging' = FALSE
                /\ ex' = [ex EXCEPT ![p] = Finished(@, "rolledBack", 0)]
           ELSE /\ ex' = [ex EXCEPT ![p].fetched = fetched]
                /\ UNCHANGED isDragging
  /\ UNCHANGED <<remote, showRequiredFieldsDialog, currentDragOperation,
                 loadingToast, now>>

\* one getByStageId of the rollback resolves; the last one completes
\* Promise.all: setStages(originalStages), then the finally block
getByStageIdOk(p, i) ==
  /\ UNCHANGED <<editVars, roleVars, userVars>>
  /\ ex[p].pc = "refetch"
  /\ i \in DOMAIN ex[p].fetched
  /\ ex[p].fetched[i] = {}
  /\ \A j \in DOMAIN ex[p].fetched : j < i => ex[p].fetched[j] # {}
  /\ LET fetched == [ex[p].fetched EXCEPT
                       ![i] = {getByStageId(remote, ex[p].closure[i].id)}]
         all == \A j \in DOMAIN fetched : fetched[j] # {}
     IN IF all
        THEN /\ stages' = [j \in DOMAIN ex[p].closure |->
                  [ex[p].closure[j] EXCEPT !.opportunities = The(fetched[j])]]
             /\ isDragging' = FALSE
             /\ ex' = [ex EXCEPT ![p] = Finished(@, "rolledBack", 0)]
        ELSE /\ ex' = [ex EXCEPT ![p].fetched = fetched]
             /\ UNCHANGED <<stages, isDragging>>
  /\ UNCHANGED <<remote, showRequiredFieldsDialog, currentDragOperation,
                 loadingToast, now>>

\* variant: the stages whose refetch had answered are refreshed before the
\* failure is logged
getByStageIdFailRefreshed(p) ==
  /\ UNCHANGED <<editVars, roleVars, userVars>>
  /\ ex[p].pc = "refetch"
  /\ ex' = [ex EXCEPT ![p] = Finished(@, "rollbackFailed", 0)]
  /\ isDragging' = FALSE
  /\ stages' = [j \in DOMAIN ex[p].closure |->
       IF ex[p].fetched[j] # {}
       THEN [ex[p].closure[j] EXCEPT !.opportunities = The(ex[p].fetched[j])]
       ELSE ex[p].closure[j]]
  /\ UNCHANGED <<remote, showRequiredFieldsDialog, currentDragOperation,
                 loadingToast, now>>

\* one getByStageId of the rollback rejects: logged, then the finally block
getByStageIdFail(p) ==
  /\ UNCHANGED <<editVars, roleVars, userVars>>
  /\ ex[p].pc = "refetch"
  /\ ex' = [ex EXCEPT ![p] = Finished(@, "rollbackFailed", 0)]
  /\ isDragging' = FALSE
  /\ UNCHANGED <<stages, remote, showRequiredFieldsDialog,
                 currentDragOperation, loadingToast, now>>

Next ==
  \/ \E p \in Calls, o \in DragIds, s \in DropIds, d \in DropIds :
       \E i \in DropIndexes(s, d) : handleOpportunityDrag(p, o, s, d, i)
  \/ \E p \in Calls : createDragOperationReturn(p)
  \/ \E p \in Calls : \E u \in UNION {Updates(op) : op \in currentDragOperation} :
       dialogConfirm(p, u)
  \/ \E p \in Calls : dialogCancel(p)
  \/ \E p \in Calls : persistOk(p)
  \/ \E p \in Calls : persistFail(p)
  \/ \E p \in Calls : processOk(p)
  \/ \E p \in Calls : processFail(p)
  \/ \E p \in Calls : \E i \in DOMAIN ex[p].closure : getByStageIdOk(p, i)
  \/ \E p \in Calls : getByStageIdFail(p)

Spec == Init /\ [][Next]_vars

\* `await createDragOperation(...)` rejects: line 50 is outside any try
\* block, so handleOpportunityDrag rejects there and runs nothing further
createDragOperationReject(p) ==
  /\ UNCHANGED <<editVars, roleVars, userVars>>
  /\ ex[p].pc = "createDragOperation"
  /\ ex' = [ex EXCEPT ![p] = Finished(@, "buildFailed", 0)]
  /\ UNCHANGED <<stages, remote, isDragging, showRequiredFieldsDialog,
                 currentDragOperation, loadingToast, now>>

\* the hook with a drag operation builder that can fail
RejectNext ==
  \/ Next
  \/ \E p \in Calls : createDragOperationReject(p)

RejectSpec == Init /\ [][RejectNext]_vars

\* ------------------------------------------- EditStageDialog: the actions
\* variant: the schema without its refinement
formSchemaUnrefined(values) ==
  IF Len(values.name) < 2 THEN {"name"} ELSE {}

\* formSchema: the paths of the issues zod reports for the form values
formSchema(values) ==
  LET refine == ~(values.isWinStage /\ values.isLossStage)
  IN (IF Len(values.name) < 2 THEN {"name"} ELSE {})
       \cup (IF refine THEN {} ELSE {"isWinStage"})

\* stageAPI.update: the row of the stage takes the data sent
stageAPIUpdate(table, request) ==
  [table EXCEPT ![request.stageId] =
     [@ EXCEPT !.name = request.name, !.isWinStage = request.isWinStage,
               !.isLossStage = request.isLossStage]]

\* the parent opens the dialog for a stage; the effect starts loadStage
openDialog(id) ==
  /\ ~editStageDialog.open
  /\ editStageDialog' = [editStageDialog EXCEPT
       !.open = TRUE, !.stageId = id, !.loading = TRUE, !.getById = {id}]
  /\ UNCHANGED <<stageTable, dragVars, roleVars, userVars>>

\* stageAPI.getById resolves: setStage, form.reset from the row
getByIdOk ==
  /\ editStageDialog.getById # {}
  /\ LET stageData == stageTable[The(editStageDialog.getById)]
     IN editStageDialog' = [editStageDialog EXCEPT
          !.stage = {stageData},
          !.values = [name |-> stageData.name,
                      isWinStage |-> stageData.isWinStage,
                      isLossStage |-> stageData.isLossStage],
          !.errors = {},
          !.loading = FALSE,
          !.getById = {}]
  /\ UNCHANGED <<stageTable, dragVars, roleVars, userVars>>

\* stageAPI.getById rejects: an error toast; stage and form stay as they were
getByIdFail ==
  /\ editStageDialog.getById # {}
  /\ editStageDialog' = [editStageDialog EXCEPT
       !.toast = "Erro ao carregar dados da etapa",
       !.loading = FALSE, !.getById = {}]
  /\ UNCHANGED <<stageTable, dragVars, roleVars, userVars>>

\* the user edits the name or flips one of the two switches
onChange(field, value) ==
  /\ editStageDialog.open
  /\ ~editStageDialog.loading
  /\ editStageDialog.values[field] # value
  /\ editStageDialog' = [editStageDialog EXCEPT !.values[field] = value]
  /\ UNCHANGED <<stageTable, dragVars, roleVars, userVars>>

\* handleSubmit: the resolver validates; onSubmit runs on valid values only
handleSubmit ==
  /\ editStageDialog.open
  /\ ~editStageDialog.loading
  /\ ~editStageDialog.isSubmitting
  /\ LET values == editStageDialog.values
         issues == formSchema(values)
     IN IF issues # {}
        THEN editStageDialog' = [editStageDialog EXCEPT !.errors = issues]
        ELSE IF editStageDialog.stage = {}
        THEN editStageDialog' = [editStageDialog EXCEPT
               !.errors = {}, !.toast = "Dados da etapa não carregados"]
        ELSE editStageDialog' = [editStageDialog EXCEPT
               !.errors = {},
               !.isSubmitting = TRUE,
               !.update = {[stageId |-> editStageDialog.stageId,
                            name |-> values.name,
                            isWinStage |-> values.isWinStage,
                            isLossStage |-> values.isLossStage]}]
  /\ UNCHANGED <<stageTable, dragVars, roleVars, userVars>>

\* stageAPI.update resolves with the updated stage: success toast, the
\* dialog closes, then the finally block
updateOk ==
  /\ editStageDialog.update # {}
  /\ stageTable' = stageAPIUpdate(stageTable, The(editStageDialog.update))
  /\ editStageDialog' = [editStageDialog EXCEPT
       !.toast = "Etapa atualizada com sucesso!",
       !.open = FALSE, !.isSubmitting = FALSE, !.update = {}]
  /\ UNCHANGED <<dragVars, roleVars, userVars>>

\* stageAPI.update rejects or resolves with nothing: error toast, then the
\* finally block; the dialog stays open
updateFail ==
  /\ editStageDialog.update # {}
  /\ editStageDialog' = [editStageDialog EXCEPT
       !.toast = "Erro ao atualizar etapa",
       !.isSubmitting = FALSE, !.update = {}]
  /\ UNCHANGED <<stageTable, dragVars, roleVars, userVars>>

\* the Cancelar button (disabled while submitting)
onCancel ==
  /\ editStageDialog.open
  /\ ~editStageDialog.loading
  /\ ~editStageDialog.isSubmitting
  /\ editStageDialog' = [editStageDialog EXCEPT !.open = FALSE]
  /\ UNCHANGED <<stageTable, dragVars, roleVars, userVars>>

EditNext ==
  \/ \E id \in StageIds : openDialog(id)
  \/ getByIdOk
  \/ getByIdFail
  \/ \E n \in Range(StageNames) : onChange("name", n)
  \/ \E b \in BOOLEAN : onChange("isWinStage", b)
  \/ \E b \in BOOLEAN : onChange("isLossStage", b)
  \/ handleSubmit
  \/ updateOk
  \/ updateFail
  \/ onCancel

EditSpec == Init /\ [][EditNext]_vars

\* ----------------------------------------------- useUserRole: the actions
\* the three state setters of one outcome, applied together
SetRole(hook, role) ==
  [hook EXCEPT !.userRole = role,
               !.isAdmin = (role = "admin"),
               !.isManager = (role = "manager" \/ role = "admin")]

\* a sequence without its i-th element
Remove(s, i) == SubSeq(s, 1, i - 1) \o SubSeq(s, i + 1, Len(s))

roleHierarchy == [user |-> 0, manager |-> 1, admin |-> 2]

hasPermission(requiredRole) ==
  roleHierarchy[userRoleHook.userRole] >= roleHierarchy[requiredRole]

\* useAuth hands the hook a user; the effect calls checkUserRole, which
\* sends the select for that user
signIn(u) ==
  /\ userRoleHook.user # {u}
  /\ Len(userRoleHook.pending) < MaxFetches
  /\ userRoleHook' = [userRoleHook EXCEPT
       !.user = {u}, !.pending = Append(@, u)]
  /\ UNCHANGED <<dragVars, editVars, userVars>>

\* useAuth hands the hook no user; the effect resets the state
signOut ==
  /\ userRoleHook.user # {}
  /\ userRoleHook' = [SetRole(userRoleHook, "user") EXCEPT
       !.user = {}, !.loading = FALSE]
  /\ UNCHANGED <<dragVars, editVars, userVars>>

\* refetch: checkUserRole called by the component
refetch ==
  /\ userRoleHook.user # {}
  /\ Len(userRoleHook.pending) < MaxFetches
  /\ userRoleHook' = [userRoleHook EXCEPT
       !.pending = Append(@, The(userRoleHook.user))]
  /\ UNCHANGED <<dragVars, editVars, userVars>>

\* the select answers with the role row
selectRow(i) ==
  /\ i \in DOMAIN userRoleHook.pending
  /\ UserRoles[userRoleHook.pending[i]] # {}
  /\ userRoleHook' =
       [SetRole(userRoleHook, The(UserRoles[userRoleHook.pending[i]])) EXCEPT
          !.loading = FALSE, !.pending = Remove(@, i),
          !.log = "User role found"]
  /\ UNCHANGED <<dragVars, editVars, userVars>>

\* the select answers PGRST116: the user has no role row
selectNoRow(i) ==
  /\ i \in DOMAIN userRoleHook.pending
  /\ UserRoles[userRoleHook.pending[i]] = {}
  /\ userRoleHook' = [SetRole(userRoleHook, "user") EXCEPT
       !.loading = FALSE, !.pending = Remove(@, i),
       !.log = "No role found"]
  /\ UNCHANGED <<dragVars, editVars, userVars>>

\* variant: an error other than PGRST116 keeps the role the hook had
selectErrorKeepsRole(i) ==
  /\ i \in DOMAIN userRoleHook.pending
  /\ userRoleHook' = [userRoleHook EXCEPT
       !.loading = FALSE, !.pending = Remove(@, i),
       !.log = "Error checking user role"]
  /\ UNCHANGED <<dragVars, editVars, userVars>>

\* the select answers any other error, or rejects: thrown to the catch block
selectError(i) ==
  /\ i \in DOMAIN userRoleHook.pending
  /\ userRoleHook' = [SetRole(userRoleHook, "user") EXCEPT
       !.loading = FALSE, !.pending = Remove(@, i),
       !.log = "Error checking user role"]
  /\ UNCHANGED <<dragVars, editVars, userVars>>

RoleNext ==
  \/ \E u \in UserIds : signIn(u)
  \/ signOut
  \/ refetch
  \/ \E i \in 1..MaxFetches : selectRow(i)
  \/ \E i \in 1..MaxFetches : selectNoRow(i)
  \/ \E i \in 1..MaxFetches : selectError(i)

RoleSpec == Init /\ [][RoleNext]_vars

\* -------------------------------------------- CreateUserDialog: the actions
\* sample inputs of the form's controls
Emails == {"", "ana@x.io"}

Names == {"", "Ana"}

Surnames == {"", "Lima"}

Passwords == {"", "12345", "segredo"}

Roles == {"user", "admin"}

\* the samples that z.string().email() accepts
WellFormedEmails == {"ana@x.io"}

ErrorKeys == {"email", "firstName", "lastName", "password", "role", "general"}

NoErrors == [k \in ErrorKeys |-> ""]

\* the messages of the issues createUserSchema raises, in the order of its
\* fields
createUserSchema(data) ==
  (IF data.email \in WellFormedEmails THEN <<>>
   ELSE <<"Email deve ter um formato válido">>)
  \o (IF data.role \in {"admin", "manager", "user"} THEN <<>>
      ELSE <<"Invalid enum value">>)
  \o (IF Len(data.firstName) >= 1 THEN <<>> ELSE <<"Nome é obrigatório">>)
  \o (IF Len(data.lastName) >= 1 THEN <<>> ELSE <<"Sobrenome é obrigatório">>)
  \o (IF Len(data.password) >= 6 THEN <<>>
      ELSE <<"Senha deve ter pelo menos 6 caracteres">>)

\* validateData(createUserSchema, data): success, or the issues' messages
validateData(data) ==
  [success |-> createUserSchema(data) = <<>>,
   errors |-> createUserSchema(data)]

\* the key handleSubmit files a message under: the first of 'email', 'nome',
\* 'sobrenome', 'senha', 'role' that the lower-cased message contains
FieldOf(error) ==
  IF error = "Email deve ter um formato válido" THEN "email"
  ELSE IF error \in {"Nome é obrigatório", "Sobrenome é obrigatório"}
    THEN "firstName"
  ELSE IF error = "Senha deve ter pelo menos 6 caracteres" THEN "password"
  ELSE "general"

\* newErrors after the forEach: a later message overwrites an earlier one
\* of the same key
NewErrors(errors) ==
  [k \in ErrorKeys |->
     LET at == {i \in DOMAIN errors : FieldOf(errors[i]) = k}
     IN  IF at = {} THEN ""
         ELSE errors[CHOOSE i \in at : \A j \in at : j <= i]]

\* the body handed to supabase.functions.invoke
Body(data) ==
  [email |-> data.email, password |-> data.password,
   firstName |-> data.firstName, lastName |-> data.lastName,
   role |-> data.role]

\* handleError(error, message): presents the message, touches no state of
\* the dialog
handleError(dialog, message) == [dialog EXCEPT !.toast = message]

\* Dialog's onOpenChange and the parent's button: setIsOpen(open)
setIsOpen(open) ==
  /\ createUserDialog.isOpen # open
  /\ createUserDialog' = [createUserDialog EXCEPT !.isOpen = open]
  /\ UNCHANGED <<dragVars, editVars, roleVars>>

updateField(field, value) ==
  /\ createUserDialog.isOpen
  /\ createUserDialog' = [createUserDialog EXCEPT
       !.formData[field] = value,
       !.errors[field] = ""]
  /\ UNCHANGED <<dragVars, editVars, roleVars>>

\* variant: CreateUserDialog.handleSubmit without its validation
createUserUnvalidated ==
  /\ createUserDialog.isOpen
  /\ ~createUserDialog.isLoading
  /\ createUserDialog.invoked < MaxInvokes
  /\ createUserDialog' = [createUserDialog EXCEPT
       !.isLoading = TRUE,
       !.request = {Body(createUserDialog.formData)},
       !.invoked = @ + 1]
  /\ UNCHANGED <<dragVars, editVars, roleVars>>

\* CreateUserDialog.handleSubmit up to its return or its await, called by
\* the "Criar Usuário" button, which is enabled while no request is out
createUser ==
  /\ createUserDialog.isOpen
  /\ ~createUserDialog.isLoading
  /\ LET validation == validateData(createUserDialog.formData)
     IN  IF ~validation.success
         THEN createUserDialog' = [createUserDialog EXCEPT
                !.errors = NewErrors(validation.errors)]
         ELSE /\ createUserDialog.invoked < MaxInvokes
              /\ createUserDialog' = [createUserDialog EXCEPT
                   !.isLoading = TRUE,
                   !.request = {Body(createUserDialog.formData)},
                   !.invoked = @ + 1]
  /\ UNCHANGED <<dragVars, editVars, roleVars>>

\* the function answers without error: the rest of the try block, finally
invokeOk ==
  /\ createUserDialog.request # {}
  /\ createUserDialog' = [createUserDialog EXCEPT
       !.toast = "Usuário criado com sucesso!",
       !.formData = BlankForm,
       !.errors = NoErrors,
       !.isOpen = FALSE,
       !.onUserCreated = @ + 1,
       !.isLoading = FALSE,
       !.request = {}]
  /\ UNCHANGED <<dragVars, editVars, roleVars>>

\* the function answers with an error, or the call rejects: catch, finally
invokeFail ==
  /\ createUserDialog.request # {}
  /\ createUserDialog' =
       [handleError(createUserDialog, "Erro ao criar usuário") EXCEPT
          !.isLoading = FALSE,
          !.request = {}]
  /\ UNCHANGED <<dragVars, editVars, roleVars>>

UserNext ==
  \/ \E open \in BOOLEAN : setIsOpen(open)
  \/ \E value \in Emails : updateField("email", value)
  \/ \E value \in Names : updateField("firstName", value)
  \/ \E value \in Surnames : updateField("lastName", value)
  \/ \E value \in Passwords : updateField("password", value)
  \/ \E value \in Roles : updateField("role", value)
  \/ createUser
  \/ invokeOk
  \/ invokeFail

UserSpec == Init /\ [][UserNext]_vars

\* ---------------------------------------------------------------- claims
Ids(list) == {list[i].id : i \in DOMAIN list}

OppsOf(list, stageId) ==
  LET stage == FindStage(list, stageId)
  IN IF stage = {} THEN <<>> ELSE The(stage).opportunities

ShownIn(list, stageId, oppId) == oppId \in Ids(OppsOf(list, stageId))

InFlight(e) == e.pc \in {"persist", "process", "refetch"}

Called(e, api) == \E i \in DOMAIN e.calls : e.calls[i].api = api

\* the persistence call of the execution was rejected
PersistFailed(e) == e.pc = "refetch" /\ ~Called(e, "processStageRequirements")

\* C1 as stated: in no state does the local list show the opportunity in
\* the destination stage while the persistence call of that move is pending
\* or has failed.
C1_NotShownBeforePersisted ==
  \A p \in Calls :
    (ex[p].pc = "persist" \/ PersistFailed(ex[p]))
      => ~ShownIn(stages, ex[p].args.destinationStageId,
                  The(ex[p].args.opportunity).id)

\* C1 amended: an execution changes the local stage list only in the step
\* that follows the successful return of its own persistence call and of the
\* stage processing, or in the refresh that completes its rollback; while its
\* persistence call is pending or after it failed it patches nothing.
C1_PatchOnlyAfterPersisted ==
  [][\A p \in Calls :
       (ex'[p] # ex[p] /\ stages' # stages)
         => \/ ex[p].pc = "process" /\ ex'[p].pc = "reconciled"
               /\ Called(ex[p], "processStageRequirements")
            \/ ex[p].pc = "refetch" /\ ex'[p].pc = "rolledBack"]_vars

\* a move was committed: the board shows a card outside the first stage
C1_Patched ==
  \E p \in Calls :
    /\ ex[p].pc = "reconciled"
    /\ \E o \in OppIds : ShownIn(stages, "W", o) \/ ShownIn(stages, "L", o)

\* C2 as stated: when every remote step of a move succeeded, the source list
\* no longer holds the opportunity, the destination list holds it at
\* destinationIndex with the destination stage id and a fresh timestamp, and
\* one success notification was emitted.
C2_RemovedAndInsertedAtIndex ==
  [][\A p \in Calls :
       (ex[p].pc = "process" /\ ex'[p].pc = "reconciled")
         => LET a == ex[p].args
                o == The(a.opportunity)
                from == OppsOf(stages', a.sourceStageId)
                to == OppsOf(stages', a.destinationStageId)
                at == a.destinationIndex + 1
            IN /\ o.id \notin Ids(from)
               /\ at \in DOMAIN to
               /\ to[at].id = o.id
               /\ to[at].stageId = a.destinationStageId
               /\ to[at].lastStageChangeAt = now
               /\ to[at].lastStageChangeAt > o.lastStageChangeAt
               /\ ex'[p].success = ex[p].success + 1]_vars

\* C3 as stated: move executions never overlap; at most one execution has
\* remote calls outstanding at a time.
C3_MovesNeverOverlap ==
  Cardinality({p \in Calls : InFlight(ex[p])}) <= 1

\* C4: a call whose source stage, destination stage or opportunity is not in
\* the local list ends at once with one error notification and nothing else:
\* no remote call, no dialog, no change of the local list, of the stored
\* operation or of isDragging; a call that goes on found all three.
C4_LookupErrorChangesNothing ==
  [][\A p \in Calls :
       (ex[p].pc = "unused" /\ ex'[p].pc # "unused")
         => IF ex'[p].pc = "lookupError"
            THEN /\ ex'[p].error = 1 /\ ex'[p].success = 0
                 /\ ex'[p].calls = <<>>
                 /\ \A q \in Calls \ {p} : ex'[q] = ex[q]
                 /\ UNCHANGED <<stages, remote, isDragging, loadingToast,
                                showRequiredFieldsDialog, currentDragOperation>>
            ELSE /\ ex'[p].pc = "createDragOperation"
                 /\ FindStage(stages, ex'[p].args.destinationStageId) # {}
                 /\ ex'[p].args.opportunity # {}
                 /\ ex'[p].args.opportunity \subseteq
                      Range(OppsOf(stages, ex'[p].args.sourceStageId))]_vars

\* a call was turned away by the lookup
C4_Rejected ==
  \E p \in Calls : ex[p].pc = "lookupError" /\ ex[p].error = 1

\* the step of call p that ends `await createDragOperation(...)`
Built(p) == ex[p].pc = "createDragOperation" /\ ex'[p] # ex[p]

\* C5: a drag whose operation has no missing field, no missing task and no
\* reason requirement goes straight to completeOpportunityMove without
\* updated fields, so through opportunityAPI.move; neither that step nor any
\* later step of the execution opens a dialog or stores an operation.
C5_DirectMoveWhenNothingUnmet ==
  [][\A p \in Calls :
       /\ (Built(p) /\ DragOperationOf(ex[p]).missingFields = {}
                    /\ DragOperationOf(ex[p]).missingTasks = {}
                    /\ ~DragOperationOf(ex[p]).requiresReason)
            => /\ ex'[p].pc = "persist"
               /\ ex'[p].args.updatedOpportunity = {}
               /\ ex'[p].calls =
                    <<[api |-> "move", id |-> The(ex[p].args.opportunity).id,
                       stageId |-> ex[p].args.destinationStageId]>>
               /\ isDragging'
               /\ UNCHANGED <<showRequiredFieldsDialog, currentDragOperation>>
       /\ (InFlight(ex[p]) /\ ex'[p] # ex[p])
            => UNCHANGED <<showRequiredFieldsDialog, currentDragOperation>>]_vars

\* a drag with nothing unmet has its opportunityAPI.move call out and no
\* dialog is open
C5_MovedWithoutDialog ==
  \E p \in Calls :
    /\ ex[p].pc = "persist"
    /\ ~hasRequirements(DragOperationOf(ex[p]))
    /\ ex[p].calls[1].api = "move"
    /\ showRequiredFieldsDialog = "false"
    /\ currentDragOperation = {}

\* C6: a drag whose opportunity misses a required field of the destination
\* stage opens the full required-fields dialog, never the reason prompt,
\* also when the stage requires a win/loss reason as well.
C6_FullDialogWhenFieldMissing ==
  [][\A p \in Calls :
       (Built(p) /\ MissingFields(The(ex[p].args.opportunity),
                      The(FindStage(ex[p].closure, ex[p].args.destinationStageId))) # {})
         => /\ showRequiredFieldsDialog' = "true"
            /\ currentDragOperation' = {DragOperationOf(ex[p])}
            /\ ex'[p].pc = "awaitingUser"]_vars

\* the full dialog is open for a drag that misses a field and a reason
C6_FullDialogWithReasonToo ==
  /\ showRequiredFieldsDialog = "true"
  /\ \E op \in currentDragOperation : op.missingFields # {} /\ op.requiresReason

\* C7: a drag into a win or loss stage that requires its reason, of an
\* opportunity without that reason whose required fields and tasks are all
\* satisfied, opens the reason prompt and not the full dialog.
C7_ReasonPromptWhenOnlyReason ==
  [][\A p \in Calls :
       LET o == The(ex[p].args.opportunity)
           stage == The(FindStage(ex[p].closure, ex[p].args.destinationStageId))
       IN (/\ Built(p)
           /\ \/ stage.isWinStage /\ stage.winReasonRequired /\ o.winReason = NoValue
              \/ stage.isLossStage /\ stage.lossReasonRequired /\ o.lossReason = NoValue
           /\ \A f \in stage.requiredFields :
                f.isRequired => o.customFields[f.name] # NoValue
           /\ \A t \in stage.requiredTasks :
                t.isRequired => t.name \in o.requiredTasksCompleted)
            => /\ showRequiredFieldsDialog' = "reason"
               /\ currentDragOperation' = {DragOperationOf(ex[p])}
               /\ ex'[p].pc = "awaitingUser"]_vars

\* the reason prompt is open for a drag into a stage with required elements
\* that the opportunity already satisfies
C7_ReasonPromptOpen ==
  /\ showRequiredFieldsDialog = "reason"
  /\ \E op \in currentDragOperation :
       /\ op.requiresReason
       /\ op.destinationStage.requiredFields \cup op.destinationStage.requiredTasks # {}

\* C8: a drag with an unmet requirement stores its operation and opens a
\* dialog without any remote call and without touching the local list or
\* the store; while it waits it has made no remote call, its first remote
\* call is the persistence call of the resumed completeOpportunityMove, and
\* a cancelled drag leaves the local list and the store as they were.
C8_PausedDragHasNoRemoteEffect ==
  [][\A p \in Calls :
       /\ (Built(p) /\ hasRequirements(DragOperationOf(ex[p])))
            => /\ ex'[p].pc = "awaitingUser"
               /\ ex'[p].calls = <<>>
               /\ currentDragOperation' = {DragOperationOf(ex[p])}
               /\ showRequiredFieldsDialog' \in {"true", "reason"}
               /\ UNCHANGED <<stages, remote, isDragging>>
       /\ (ex[p].pc = "awaitingUser" /\ ex'[p] # ex[p])
            => /\ ex[p].calls = <<>>
               /\ UNCHANGED <<stages, remote>>
               /\ \/ /\ ex'[p].pc = "persist"
                     /\ Len(ex'[p].calls) = 1
                     /\ ex'[p].calls[1].api \in {"update", "move"}
                  \/ /\ ex'[p].pc \in {"cancelled", "discarded"}
                     /\ ex'[p].calls = <<>>
                     /\ UNCHANGED isDragging]_vars

\* the user dismissed the dialog of a paused drag
C8_Cancelled ==
  \E p \in Calls :
    /\ ex[p].pc = "cancelled"
    /\ currentDragOperation = {}
    /\ showRequiredFieldsDialog = "false"
    /\ stages = <<StageA, StageW, StageL>>

\* C9 as stated: a move resumed with updated fields is persisted by one
\* opportunityAPI.update call that carries the new stage and every supplied
\* field, and on success the record placed in the destination list carries
\* every supplied field with the supplied value.
C9_UpdateCarriesStageAndFields ==
  [][\A p \in Calls :
       /\ (ex[p].pc = "awaitingUser" /\ ex'[p].pc = "persist"
             /\ ex'[p].args.updatedOpportunity # {})
            => LET u == The(ex'[p].args.updatedOpportunity)
                   call == ex'[p].calls[1]
               IN /\ Len(ex'[p].calls) = 1
                  /\ call.api = "update"
                  /\ call.payload.stageId = ex'[p].args.destinationStageId
                  /\ \A k \in DOMAIN u : call.payload[k] = u[k]
       /\ (ex[p].pc = "process" /\ ex'[p].pc = "reconciled"
             /\ ex[p].args.updatedOpportunity # {})
            => LET u == The(ex[p].args.updatedOpportunity)
                   to == OppsOf(stages', ex[p].args.destinationStageId)
               IN \E i \in DOMAIN to :
                    /\ to[i].id = The(ex[p].args.opportunity).id
                    /\ \A k \in DOMAIN u : to[i][k] = u[k]]_vars

\* the step of call p that enters the catch block
Failed(p) == ex[p].pc \in {"persist", "process"} /\ ex'[p].pc = "refetch"

\* C10: when the persistence call or the stage processing fails, the local
\* list is left unpatched, no success notification is emitted then or later
\* in the execution, exactly one failure notification is emitted, and one
\* getByStageId(stage.id, false) is sent for every stage of the local list.
C10_FailureNotifiesOnceAndRefetchesAll ==
  [][\A p \in Calls :
       /\ (ex[p].pc \in {"persist", "process"} /\ ex'[p] # ex[p])
            => \/ ex[p].pc = "persist" /\ ex'[p].pc = "process"
               \/ ex[p].pc = "process" /\ ex'[p].pc = "reconciled"
               \/ Failed(p)
       /\ Failed(p)
            => /\ UNCHANGED stages
               /\ ex'[p].success = 0 /\ ex'[p].error = 1 /\ ex[p].error = 0
               /\ ~loadingToast'
               /\ SubSeq(ex'[p].calls, 1, Len(ex[p].calls)) = ex[p].calls
               /\ SubSeq(ex'[p].calls, Len(ex[p].calls) + 1, Len(ex'[p].calls))
                    = [i \in DOMAIN stages |->
                         [api |-> "getByStageId", stageId |-> stages[i].id,
                          includeArchived |-> FALSE]]
       /\ (ex[p].pc = "refetch" /\ ex'[p] # ex[p])
            => /\ ex'[p].pc \in {"refetch", "rolledBack", "rollbackFailed"}
               /\ ex'[p].success = 0 /\ ex'[p].error = 1]_vars

\* the stage processing failed after a successful persistence call and the
\* refetches are out
C10_SideEffectFailed ==
  \E p \in Calls :
    /\ ex[p].pc = "refetch"
    /\ Called(ex[p], "processStageRequirements")
    /\ ex[p].error = 1 /\ ex[p].success = 0

\* the step of call p that completes the rollback
RolledBack(p) == ex[p].pc = "refetch" /\ ex'[p].pc = "rolledBack"

\* what getByStageId returned to call p for the i-th stage of its list: the
\* stored response, or the response that arrives in this step
Returned(p, i) ==
  IF ex[p].fetched[i] # {} THEN The(ex[p].fetched[i])
  ELSE getByStageId(remote, ex[p].closure[i].id)

\* C11 as stated: after a failed move whose refetches all succeeded, the
\* local list of every stage is the list the store returned for it, and the
\* local placement of the moved opportunity is the store's: the board shows
\* it in a stage exactly when the store has it in that stage.
C11_RollbackAgreesWithStore ==
  [][\A p \in Calls :
       RolledBack(p)
         => /\ Len(stages') = Len(ex[p].closure)
            /\ \A i \in DOMAIN stages' :
                 /\ stages'[i].id = ex[p].closure[i].id
                 /\ stages'[i].opportunities = Returned(p, i)
            /\ \A s \in StageIds :
                 ShownIn(stages', s, The(ex[p].args.opportunity).id)
                   <=> remote'[The(ex[p].args.opportunity).id].stageId = s]_vars

\* C12: when a refetch of the rollback fails, the failure is only logged:
\* the local stage list stays exactly as it was (no stage is refreshed), no
\* notification is emitted, no further remote call is made, the execution
\* ends with isDragging lowered, and an ended call takes no further step.
C12_RollbackFailureOnlyLogged ==
  [][\A p \in Calls :
       /\ (ex[p].pc = "refetch" /\ ex'[p].pc = "rollbackFailed")
            => /\ UNCHANGED <<stages, remote, loadingToast,
                              showRequiredFieldsDialog, currentDragOperation>>
               /\ ex'[p].error = ex[p].error
               /\ ex'[p].success = ex[p].success
               /\ ex'[p].calls = <<>>
               /\ ~isDragging'
               /\ \A q \in Calls \ {p} : ex'[q] = ex[q]
       /\ (ex[p].pc = "rollbackFailed") => ex'[p] = ex[p]]_vars

\* a rollback failed and left the board out of step with the store
C12_RollbackFailedBoardStale ==
  \E p \in Calls :
    /\ ex[p].pc = "rollbackFailed"
    /\ ex[p].error = 1
    /\ ~isDragging
    /\ \E o \in OppIds : ~ShownIn(stages, remote[o].stageId, o)

\* C13 as stated, its state part: isDragging is true in every state in which
\* a move execution is in flight (between the entry of completeOpportunityMove
\* and its finally block).
C13_DraggingWhileMoveInFlight ==
  \A p \in Calls : InFlight(ex[p]) => isDragging

\* C14: within one execution the persistence call comes first; the stage
\* processing is requested only when it has resolved, for the merged
\* opportunity carrying the destination stage id; the local patch is made
\* only when the stage processing has resolved in its turn; and an execution
\* whose persistence call failed never requests the stage processing.
C14_PersistThenProcessThenPatch ==
  [][\A p \in Calls :
       /\ (ex'[p].pc = "process" /\ ex[p].pc # "process")
            => /\ ex[p].pc = "persist"
               /\ Len(ex[p].calls) = 1
               /\ ex[p].calls[1].api \in {"update", "move"}
               /\ ex'[p].calls = Append(ex[p].calls,
                    [api |-> "processStageRequirements",
                     opportunity |->
                       [OpportunityToMove(The(ex[p].args.opportunity),
                                          ex[p].args.updatedOpportunity)
                          EXCEPT !.stageId = ex[p].args.destinationStageId],
                     stageId |-> ex[p].args.destinationStageId])
               /\ UNCHANGED stages
       /\ (ex'[p].pc = "reconciled" /\ ex[p].pc # "reconciled")
            => /\ ex[p].pc = "process"
               /\ Len(ex[p].calls) = 2
               /\ ex[p].calls[1].api \in {"update", "move"}
               /\ ex[p].calls[2].api = "processStageRequirements"
       /\ (ex[p].pc \in {"persist", "process"} /\ ex'[p] # ex[p] /\ stages' # stages)
            => ex[p].pc = "process" /\ ex'[p].pc = "reconciled"
       /\ (ex[p].pc = "persist" /\ ex'[p] # ex[p] /\ ex'[p].pc # "process")
            => /\ ex'[p].pc = "refetch"
               /\ ~Called(ex'[p], "processStageRequirements")
       /\ (ex[p].pc = "refetch" /\ ~Called(ex[p], "processStageRequirements"))
            => ~Called(ex'[p], "processStageRequirements")]_vars

\* the stage processing of a move is out: its opportunityAPI.move call has
\* resolved and the store has the opportunity in the destination stage
C14_ProcessingAfterPersisted ==
  \E p \in Calls :
    /\ ex[p].pc = "process"
    /\ Len(ex[p].calls) = 2
    /\ ex[p].calls[1].api = "move"
    /\ ex[p].calls[2].api = "processStageRequirements"
    /\ ex[p].calls[2].opportunity.stageId = ex[p].args.destinationStageId
    /\ ex[p].args.destinationStageId # ex[p].args.sourceStageId
    /\ remote[The(ex[p].args.opportunity).id].stageId = ex[p].args.destinationStageId

\* the step of call p that commits its move
Reconciled(p) == ex[p].pc = "process" /\ ex'[p].pc = "reconciled"

\* C15: the record a committed move to another stage inserts in the
\* destination list is the result of processStageRequirements when that is
\* not null, and otherwise the opportunity merged with the fields the user
\* supplied; either way its stageId is the destination stage id.
C15_InsertedRecordIsProcessedOrMerged ==
  [][\A p \in Calls :
       (Reconciled(p) /\ ex[p].args.sourceStageId # ex[p].args.destinationStageId)
         => LET a == ex[p].args
                o == The(a.opportunity)
                merged == [OpportunityToMove(o, a.updatedOpportunity)
                             EXCEPT !.stageId = a.destinationStageId]
                processed == processStageRequirements(merged, a.destinationStageId)
                expected == IF processed # {} THEN The(processed) ELSE merged
                to == OppsOf(stages', a.destinationStageId)
                at == Min(a.destinationIndex,
                          Len(OppsOf(ex[p].closure, a.destinationStageId))) + 1
            IN /\ Len(to) = Len(OppsOf(ex[p].closure, a.destinationStageId)) + 1
               /\ to[at].id = o.id
               /\ to[at].stageId = a.destinationStageId
               /\ [to[at] EXCEPT !.lastStageChangeAt = 0]
                    = [expected EXCEPT !.stageId = a.destinationStageId,
                                       !.lastStageChangeAt = 0]]_vars

\* the board shows a processed record (with the generated task) in one stage
\* and a merged record, for which the processing returned null, in another
C15_ProcessedAndMergedShown ==
  /\ \E p \in Calls : ex[p].pc = "reconciled"
  /\ \E i \in DOMAIN OppsOf(stages, "L") :
       /\ OppsOf(stages, "L")[i].generatedTasks # {}
       /\ OppsOf(stages, "L")[i].stageId = "L"
  /\ \E i \in DOMAIN OppsOf(stages, "W") :
       /\ OppsOf(stages, "W")[i].generatedTasks = {}
       /\ OppsOf(stages, "W")[i].customFields = Filled
       /\ OppsOf(stages, "W")[i].stageId = "W"

\* C16: the local stage list changes only in the commit step of a
\* completeOpportunityMove execution and in the refresh that completes its
\* rollback; no step of handleOpportunityDrag before completeOpportunityMove
\* (lookup, building the drag operation, opening or closing a dialog)
\* changes it; and the step in which an execution changes it is its last.
C16_StagesSetOnlyByCommitOrRefresh ==
  [][/\ stages' # stages => \E p \in Calls : Reconciled(p) \/ RolledBack(p)
     /\ \A p \in Calls :
          /\ (ex[p].pc \in {"unused", "createDragOperation", "awaitingUser"}
                /\ ex'[p] # ex[p])
               => UNCHANGED stages
          /\ ex[p].pc \in {"reconciled", "rolledBack", "rollbackFailed"}
               => ex'[p] = ex[p]]_vars

\* a rollback completed with a refresh that changed the board
C16_RefreshedByRollback ==
  \E p \in Calls :
    /\ ex[p].pc = "rolledBack"
    /\ stages # <<StageA, StageW, StageL>>
    /\ \A o \in OppIds : ShownIn(stages, remote[o].stageId, o)

\* C17: a call that passed the lookup first waits for createDragOperation,
\* having decided and sent nothing; when that returns, the call ends in
\* exactly one of three ways: the reason prompt is open, the full dialog is
\* open, or a completeOpportunityMove execution has started; building the
\* operation never fails and makes no remote call.
C17_BuildThenOneOfThreeOutcomes ==
  [][\A p \in Calls :
       /\ (ex[p].pc = "unused" /\ ex'[p].pc \notin {"unused", "lookupError"})
            => /\ ex'[p].pc = "createDragOperation"
               /\ ex'[p].calls = <<>>
               /\ UNCHANGED <<stages, remote, isDragging,
                              showRequiredFieldsDialog, currentDragOperation>>
       /\ Built(p)
            => LET prompt == /\ ex'[p].pc = "awaitingUser"
                             /\ showRequiredFieldsDialog' = "reason"
                             /\ currentDragOperation' = {DragOperationOf(ex[p])}
                             /\ ex'[p].calls = <<>>
                   dialog == /\ ex'[p].pc = "awaitingUser"
                             /\ showRequiredFieldsDialog' = "true"
                             /\ currentDragOperation' = {DragOperationOf(ex[p])}
                             /\ ex'[p].calls = <<>>
                   move   == /\ ex'[p].pc = "persist"
                             /\ isDragging'
                             /\ Len(ex'[p].calls) = 1
                             /\ UNCHANGED <<showRequiredFieldsDialog,
                                            currentDragOperation>>
               IN /\ ex[p].calls = <<>>
                  /\ UNCHANGED <<stages, remote>>
                  /\ Cardinality({k \in 1..3 : \/ k = 1 /\ prompt
                                               \/ k = 2 /\ dialog
                                               \/ k = 3 /\ move}) = 1]_vars

\* one call ended with the reason prompt open while another ended in a
\* completeOpportunityMove execution whose move call is out
C17_PromptAndMoveReached ==
  \E p, q \in Calls :
    /\ ex[p].pc = "awaitingUser"
    /\ showRequiredFieldsDialog = "reason"
    /\ ex[q].pc = "persist"
    /\ ex[q].args.updatedOpportunity = {}
    /\ Len(ex[q].calls) = 1

\* C18: for the operation a drag builds, "requires only a reason" is true
\* exactly when the evaluator finds the reason required and no required
\* field and no required task missing; whenever it is true "has any
\* requirement" is true too, so every reason-only drag reaches the reason
\* prompt nested under hasRequirements.
C18_ReasonOnlyImpliesHasRequirements ==
  [][\A p \in Calls :
       Built(p)
         => LET o == The(ex[p].args.opportunity)
                stage == The(FindStage(ex[p].closure, ex[p].args.destinationStageId))
                op == DragOperationOf(ex[p])
                only == /\ RequiresReason(o, stage)
                        /\ MissingFields(o, stage) = {}
                        /\ MissingTasks(o, stage) = {}
            IN /\ requiresOnlyReasons(op) <=> only
               /\ requiresOnlyReasons(op) => hasRequirements(op)
               /\ only => /\ ex'[p].pc = "awaitingUser"
                          /\ showRequiredFieldsDialog' = "reason"]_vars

\* a reason-only drag waits at the reason prompt
C18_ReasonOnlyDragAtPrompt ==
  \E p \in Calls :
    /\ ex[p].pc = "awaitingUser"
    /\ showRequiredFieldsDialog = "reason"
    /\ \E op \in currentDragOperation :
         /\ requiresOnlyReasons(op)
         /\ hasRequirements(op)
         /\ op.opportunity = The(ex[p].args.opportunity)

\* C20: no row of the stage table and no stageAPI.update request of the edit
\* dialog has isWinStage and isLossStage both true: starting from stages
\* that are not both, every stage saved through the dialog is not both,
\* because a submission with both switches on is rejected by the form.
C20_StageNeverWinAndLoss ==
  /\ \A id \in StageIds :
       ~(stageTable[id].isWinStage /\ stageTable[id].isLossStage)
  /\ \A request \in editStageDialog.update :
       ~(request.isWinStage /\ request.isLossStage)

\* a submission with both switches on was rejected: the form shows the
\* issue on isWinStage and no request is out
C20_BothFlagsRejected ==
  /\ editStageDialog.open
  /\ editStageDialog.values.isWinStage
  /\ editStageDialog.values.isLossStage
  /\ "isWinStage" \in editStageDialog.errors
  /\ editStageDialog.update = {}
  /\ ~editStageDialog.isSubmitting

\* how many times the local stage lists show an opportunity id
Shown(list, oppId) ==
  Cardinality({<<i, j>> \in (DOMAIN list) \X (1..Cardinality(OppIds)) :
                 /\ j \in DOMAIN list[i].opportunities
                 /\ list[i].opportunities[j].id = oppId})

\* every opportunity id is in exactly one stage list, exactly once
EachShownOnce(list) ==
  /\ \A i \in DOMAIN list : Len(list[i].opportunities) <= Cardinality(OppIds)
  /\ \A o \in OppIds : Shown(list, o) = 1

\* C21 as stated: a successful completeOpportunityMove that starts from a
\* local list in which every opportunity id appears in exactly one stage
\* list exactly once ends in such a list: no opportunity is lost or
\* duplicated, also when source and destination stage are the same.
C21_EachOpportunityShownOnce ==
  [][\A p \in Calls :
       (Reconciled(p) /\ EachShownOnce(stages)) => EachShownOnce(stages')]_vars

\* C22 as stated: whenever completeOpportunityMove emits the failure
\* notification, the store still holds the opportunity in the stage it had
\* before the move: a move reported as failed was not persisted.
C22_FailedMoveNotPersisted ==
  [][\A p \in Calls :
       Failed(p)
         => remote'[The(ex[p].args.opportunity).id].stageId
              = The(ex[p].args.opportunity).stageId]_vars

\* C23 as stated: for every updated-fields object passed to
\* completeOpportunityMove, the stage id opportunityAPI.update sends is
\* destinationStageId, and after a successful move the record placed in the
\* local destination list and the store's record both carry that stage id.
C23_UpdateSendsDestinationStage ==
  [][\A p \in Calls :
       /\ (ex[p].pc = "awaitingUser" /\ ex'[p].pc = "persist"
             /\ ex'[p].args.updatedOpportunity # {})
            => /\ ex'[p].calls[1].api = "update"
               /\ ex'[p].calls[1].payload.stageId = ex'[p].args.destinationStageId
       /\ (Reconciled(p) /\ ex[p].args.updatedOpportunity # {}
             /\ ex[p].args.sourceStageId # ex[p].args.destinationStageId)
            => LET a == ex[p].args
                   to == OppsOf(stages', a.destinationStageId)
               IN \E i \in DOMAIN to :
                    /\ to[i].id = The(a.opportunity).id
                    /\ to[i].stageId = a.destinationStageId
                    /\ to[i].stageId = remote'[to[i].id].stageId]_vars

\* C24: an execution of completeOpportunityMove that ends has emitted
\* exactly one outcome notification: the success notification when it
\* committed, the failure notification when it entered the catch block,
\* never both and never neither; the success notification is emitted in the
\* step whose setStages applied the patch, and in no other.
C24_ExactlyOneOutcomeNotification ==
  [][\A p \in Calls :
       /\ (InFlight(ex[p]) /\ ~InFlight(ex'[p]))
            => /\ ex'[p].pc \in {"reconciled", "rolledBack", "rollbackFailed"}
               /\ ex'[p].success + ex'[p].error = 1
               /\ ex'[p].success = 1 <=> ex'[p].pc = "reconciled"
       /\ ex'[p].success > ex[p].success
            => /\ Reconciled(p)
               /\ ex[p].error = 0
               /\ OppsOf(stages', ex[p].args.sourceStageId)
                    = Filter(OppsOf(ex[p].closure, ex[p].args.sourceStageId),
                             The(ex[p].args.opportunity).id)
               /\ ex[p].args.sourceStageId # ex[p].args.destinationStageId
                    => Len(OppsOf(stages', ex[p].args.destinationStageId))
                         = Len(OppsOf(ex[p].closure, ex[p].args.destinationStageId)) + 1
       /\ (InFlight(ex[p]) /\ ex'[p].error > ex[p].error)
            => Failed(p) /\ ex[p].success = 0]_vars

\* one execution ended with the success notification and another with the
\* failure notification
C24_BothOutcomesSeen ==
  \E p, q \in Calls :
    /\ ex[p].pc = "reconciled" /\ ex[p].success = 1 /\ ex[p].error = 0
    /\ ex[q].pc \in {"rolledBack", "rollbackFailed"}
    /\ ex[q].success = 0 /\ ex[q].error = 1

\* C25 as stated: the loading toast shown after a successful lookup is
\* dismissed on every path, also when building the drag operation fails: it
\* is up only while a call is still on its way to the step that dismisses
\* it (the opening of a dialog, the commit, the catch block).
C25_LoadingToastDismissedOnEveryPath ==
  loadingToast
    => \E p \in Calls : ex[p].pc \in {"createDragOperation", "persist", "process"}

\* C26 as stated: a successful completeOpportunityMove keeps the number,
\* order and ids of the stages, leaves every stage other than the source
\* and the destination stage unchanged, changes nothing of those two but
\* their opportunity lists, and keeps the other opportunities of those
\* lists in their order.
C26_MoveTouchesOnlyTheTwoLists ==
  [][\A p \in Calls :
       Reconciled(p)
         => LET a == ex[p].args
                o == The(a.opportunity)
            IN /\ Len(stages') = Len(stages)
               /\ \A i \in DOMAIN stages :
                    /\ stages'[i].id = stages[i].id
                    /\ [stages'[i] EXCEPT !.opportunities = <<>>]
                         = [stages[i] EXCEPT !.opportunities = <<>>]
                    /\ stages[i].id \notin {a.sourceStageId, a.destinationStageId}
                         => stages'[i] = stages[i]
                    /\ Filter(stages'[i].opportunities, o.id)
                         = Filter(stages[i].opportunities, o.id)]_vars

\* the hook holds the default role
DefaultRole ==
  /\ userRoleHook.userRole = "user"
  /\ ~userRoleHook.isAdmin
  /\ ~userRoleHook.isManager

\* C27 as stated: whenever nobody is signed in and no role request is out,
\* userRole is 'user' and isAdmin and isManager are false, also after a
\* request that was sent for a user who signed out before it answered.
C27_SignedOutHasDefaultRole ==
  (userRoleHook.user = {} /\ userRoleHook.pending = <<>>) => DefaultRole

\* the roles at or below a role in the order user < manager < admin
AtOrBelow(role) ==
  IF role = "admin" THEN {"user", "manager", "admin"}
  ELSE IF role = "manager" THEN {"user", "manager"}
  ELSE {"user"}

\* C28: the hook fails closed: after a request that answered with an error,
\* of whatever kind, it holds the default role with loading false; and in
\* every settled state isAdmin holds exactly for 'admin', isManager exactly
\* for 'manager' and 'admin', and hasPermission(r) exactly for the roles r
\* at or below userRole.
C28_RoleFailsClosed ==
  /\ userRoleHook.log \in {"No role found", "Error checking user role"}
       => DefaultRole /\ ~userRoleHook.loading
  /\ (~userRoleHook.loading /\ userRoleHook.pending = <<>>)
       => /\ userRoleHook.isAdmin <=> userRoleHook.userRole = "admin"
          /\ userRoleHook.isManager
               <=> userRoleHook.userRole \in {"manager", "admin"}
          /\ \A r \in {"user", "manager", "admin"} :
               hasPermission(r) <=> r \in AtOrBelow(userRoleHook.userRole)

\* the request of a user whose row says admin answered with an error and
\* the hook holds the default role
C28_AdminRequestFailed ==
  /\ userRoleHook.log = "Error checking user role"
  /\ userRoleHook.pending = <<>>
  /\ \E u \in userRoleHook.user : UserRoles[u] = {"admin"}
  /\ DefaultRole
  /\ ~hasPermission("manager")

\* the step on which an outstanding create-user call answers
CreateUserAnswered ==
  createUserDialog.request # {} /\ createUserDialog'.request = {}

\* C29: CreateUserDialog.handleSubmit sends the create-user call only for
\* form data that pass validation, with exactly those data; while the data
\* fail validation no call goes out and isLoading stays false; a call that
\* fails leaves isOpen and the form data as they are and does not call
\* onUserCreated; a call that succeeds resets the form, closes the dialog
\* and calls onUserCreated once; either answer sets isLoading back to false.
C29_CreateUserOnlyWhenValid ==
  [][/\ (createUserDialog'.request # createUserDialog.request
           /\ createUserDialog'.request # {})
          => /\ validateData(createUserDialog.formData).success
             /\ createUserDialog'.request
                  = {Body(createUserDialog.formData)}
             /\ createUserDialog'.isLoading
     /\ (~validateData(createUserDialog.formData).success
           /\ createUserDialog.request = {})
          => /\ createUserDialog'.request = {}
             /\ ~createUserDialog.isLoading
             /\ ~createUserDialog'.isLoading
             /\ createUserDialog'.invoked = createUserDialog.invoked
     /\ (CreateUserAnswered
           /\ createUserDialog'.toast = "Erro ao criar usuário")
          => /\ createUserDialog'.isOpen = createUserDialog.isOpen
             /\ createUserDialog'.formData = createUserDialog.formData
             /\ createUserDialog'.onUserCreated
                  = createUserDialog.onUserCreated
             /\ ~createUserDialog'.isLoading
     /\ (CreateUserAnswered
           /\ createUserDialog'.toast = "Usuário criado com sucesso!")
          => /\ createUserDialog'.formData = BlankForm
             /\ ~createUserDialog'.isOpen
             /\ createUserDialog'.onUserCreated
                  = createUserDialog.onUserCreated + 1
             /\ ~createUserDialog'.isLoading
     /\ CreateUserAnswered
          => createUserDialog'.toast \in {"Erro ao criar usuário",
                                          "Usuário criado com sucesso!"}
    ]_vars

\* one call succeeded, a later one failed with the dialog still open and
\* its data kept, and a submit of a too short password was then refused
C29_CreatedFailedAndRefused ==
  /\ createUserDialog.invoked = 2
  /\ createUserDialog.onUserCreated = 1
  /\ createUserDialog.toast = "Erro ao criar usuário"
  /\ createUserDialog.isOpen
  /\ createUserDialog.formData.email = "ana@x.io"
  /\ createUserDialog.errors.password # ""
  /\ createUserDialog.request = {}
  /\ ~createUserDialog.isLoading

====
